---- MODULE Spec2Model ----
(***************************************************************************)
(* splix (src/src/main.rs): split every image found under a path into a    *)
(* grid of tiles and save each tile as <stem>-r<i>c<j>.<ext>.              *)
(*                                                                         *)
(* The model follows main(): validate_args, then the WalkDir loop; for     *)
(* every entry that decodes, split_image (the grid arithmetic, in u32) and *)
(* save_images (directory creation, then one remove/save per tile).        *)
(*                                                                         *)
(* u32 values are kept at their real width: a value is a pair of 16-bit    *)
(* limbs [hi, lo], and +, -, * are computed modulo 2^32 together with the  *)
(* overflow flag.  A debug build panics on a flagged operation, a release  *)
(* build keeps the wrapped value; `build` is chosen by the environment.    *)
(***************************************************************************)
EXTENDS Integers, Sequences, FiniteSets, TLC

VARIABLES
    build,          \* "debug" (overflow checks on) or "release" (wrapping)
    rows,           \* cli.rows: None or a sequence of u32
    cols,           \* cli.cols: None or a sequence of u32
    walk,           \* what WalkDir::new(&img_dir) yields, in order
    outDirExists,   \* whether output_directory exists on disk
    files,          \* files in output_directory: [path, src, rect]
    pc,             \* position of the process
    entry,          \* index in walk of the entry main's loop is at
    split_images,   \* the Vec<DynamicImage> split_image returned
    num_rows,       \* save_images' num_rows argument
    num_cols,       \* save_images' num_cols argument
    i,              \* save_images' outer loop index
    j,              \* save_images' inner loop index
    stderr,         \* the lines written by eprintln!, in order
    ops,            \* the remove_file / save_with_format calls made, in order
    faults,         \* environment failures injected so far
    run,            \* "first" or "second" invocation with the same request
    filesRun1       \* the paths in output_directory when the first run ended

vars == <<build, rows, cols, walk, outDirExists, files, pc, entry,
          split_images, num_rows, num_cols, i, j, stderr, ops, faults,
          run, filesRun1>>

(***************************************************************************)
(* Bounds of the model.                                                    *)
(***************************************************************************)
MaxDim == 3         \* image widths and heights of the planner runs: 1..MaxDim
MaxCount == 4       \* shorthand specs [n] of the planner runs: n in 1..MaxCount
MaxWeight == 2      \* small weights of weighted specs: 1..MaxWeight
MaxSpecLen == 2     \* weighted specs have 2..MaxSpecLen weights
MaxFiles == 3       \* entries a walk yields
MaxFaults == 1      \* I/O failures the environment injects

(***************************************************************************)
(* u32 arithmetic.                                                         *)
(***************************************************************************)
Limb == 65536

U32(n) == [hi |-> n \div Limb, lo |-> n % Limb]

Zero == U32(0)

One == U32(1)

U32Max == [hi |-> Limb - 1, lo |-> Limb - 1]

\* The value of a u32 below 2^31 as an integer.
ToInt(a) == a.hi * Limb + a.lo

U32Lt(a, b) == a.hi < b.hi \/ (a.hi = b.hi /\ a.lo < b.lo)

\* a + b: the wrapped value and whether the exact sum overflowed.
AddC(a, b) ==
    LET lo == a.lo + b.lo
        hi == a.hi + b.hi + (lo \div Limb)
    IN  [v |-> [hi |-> hi % Limb, lo |-> lo % Limb], of |-> hi >= Limb]

\* a - b: the wrapped value and whether the exact difference is negative.
SubC(a, b) ==
    LET borrow == IF a.lo < b.lo THEN 1 ELSE 0
        lo == a.lo - b.lo + borrow * Limb
        hi == a.hi - b.hi - borrow
    IN  [v |-> [hi |-> (hi + Limb) % Limb, lo |-> lo], of |-> hi < 0]

Half(a) == [hi |-> a.hi \div 2, lo |-> (a.lo \div 2) + (a.hi % 2) * (Limb \div 2)]

\* a * b: the wrapped value and whether the exact product overflowed.
RECURSIVE MulC(_, _)
MulC(a, b) ==
    IF a = Zero THEN [v |-> Zero, of |-> FALSE]
    ELSE LET h == MulC(Half(a), b)
             d == AddC(h.v, h.v)
             s == IF a.lo % 2 = 1 THEN AddC(d.v, b) ELSE [v |-> d.v, of |-> FALSE]
         IN  [v |-> s.v, of |-> h.of \/ d.of \/ s.of]

\* rows.iter().sum(): the wrapped sum and whether any addition overflowed.
RECURSIVE SumC(_)
SumC(w) ==
    IF w = <<>> THEN [v |-> Zero, of |-> FALSE]
    ELSE LET p == SumC(SubSeq(w, 1, Len(w) - 1))
             s == AddC(p.v, w[Len(w)])
         IN  [v |-> s.v, of |-> p.of \/ s.of]

(***************************************************************************)
(* split_image.                                                            *)
(***************************************************************************)
None == <<>>

\* cli.rows.unwrap_or(vec![1])
UnwrapOrOne(spec) == IF spec = None THEN <<One>> ELSE spec

\* let rows = if rows.len() > 1 { rows } else { vec![1; rows[0] as usize] }
Effective(spec) ==
    IF Len(spec) > 1 THEN spec ELSE [n \in 1..ToInt(spec[1]) |-> One]

\* y at iteration n (1-based): 0, then y + row_height * rows[n - 1].
RECURSIVE Offset(_, _, _)
Offset(n, w, unit) ==
    IF n = 1 THEN [v |-> Zero, of |-> FALSE]
    ELSE LET p == Offset(n - 1, w, unit)
             m == MulC(unit, w[n - 1])
             s == AddC(p.v, m.v)
         IN  [v |-> s.v, of |-> p.of \/ m.of \/ s.of]

\* crop_height at iteration n: height - y for the last, else row_height * rows[n].
CropLen(n, w, unit, extent) ==
    IF n = Len(w) THEN SubC(extent, Offset(n, w, unit).v) ELSE MulC(unit, w[n])

\* The (start, length) the loop computes for every segment of one axis.
AxisSegments(extent, w, unit) ==
    [n \in 1..Len(w) |->
        [start |-> Offset(n, w, unit).v,
         len |-> CropLen(n, w, unit, extent).v,
         of |-> Offset(n, w, unit).of \/ CropLen(n, w, unit, extent).of]]

\* img.crop(x, y, crop_width, crop_height): the rectangle handed to crop.
Crop(colSeg, rowSeg) ==
    [x |-> colSeg.start, y |-> rowSeg.start, w |-> colSeg.len, h |-> rowSeg.len]

\* The inner loop: one push per column, left to right.
RECURSIVE PushCols(_, _, _)
PushCols(rowSeg, colSegs, n) ==
    IF n > Len(colSegs) THEN <<>>
    ELSE <<Crop(colSegs[n], rowSeg)>> \o PushCols(rowSeg, colSegs, n + 1)

\* The outer loop: one row of pushes after the other.
RECURSIVE PushRows(_, _, _)
PushRows(rowSegs, colSegs, n) ==
    IF n > Len(rowSegs) THEN <<>>
    ELSE PushCols(rowSegs[n], colSegs, 1) \o PushRows(rowSegs, colSegs, n + 1)

\* The segments of one axis once the sum checks have passed.
PlanAxis(extent, spec) ==
    AxisSegments(U32(extent), Effective(spec),
                 U32(extent \div ToInt(SumC(spec).v)))

AnyOverflow(segs) == \E n \in 1..Len(segs) : segs[n].of

\* split_image(img, &rows, &cols) on an image of the given size.
SplitImage(b, width, height, rs, cs) ==
    LET sr == SumC(rs)
        sc == SumC(cs)
    IN  IF b = "debug" /\ (sr.of \/ sc.of)
            THEN [outcome |-> "panic", msg |-> "attempt to add with overflow",
                  images |-> <<>>]
        ELSE IF U32Lt(U32(height), sr.v)
            THEN [outcome |-> "exit", msg |-> "splix: rows: The sum of provided rows exceeds image height",
                  images |-> <<>>]
        ELSE IF U32Lt(U32(width), sc.v)
            THEN [outcome |-> "exit", msg |-> "splix: cols: The sum of provided columns exceedsd image width",
                  images |-> <<>>]
        ELSE IF sr.v = Zero \/ sc.v = Zero
            THEN [outcome |-> "panic", msg |-> "attempt to divide by zero",
                  images |-> <<>>]
        ELSE LET rowSegs == PlanAxis(height, rs)
                 colSegs == PlanAxis(width, cs)
             IN  IF b = "debug" /\ (AnyOverflow(rowSegs) \/ AnyOverflow(colSegs))
                     THEN [outcome |-> "panic", msg |-> "arithmetic overflow",
                           images |-> <<>>]
                     ELSE [outcome |-> "ok", msg |-> "",
                           images |-> PushRows(rowSegs, colSegs, 1)]

(***************************************************************************)
(* main's arguments to save_images, and the output path of a tile.         *)
(***************************************************************************)
\* NumArg with the shorthand case forgotten: rows.len() for every spec.
NumArgLen(spec) == Len(spec)

\* if rows.len() > 1 { rows.len() } else { rows[0] as usize }
NumArg(spec) == IF Len(spec) > 1 THEN Len(spec) ELSE ToInt(spec[1])

\* entry.path().file_stem()
FileStem(e) == e.name

\* ImageFormat::from_path(entry.path())
FormatFromPath(e) == IF e.ext \in {"jpg", "jpeg"} THEN "Jpeg" ELSE "Png"

\* img_format.extensions_str()[0]
ExtensionsStr0(fmt) == IF fmt = "Jpeg" THEN "jpg" ELSE "png"

\* cli.output_dir.unwrap_or(PathBuf::from("splixed-images"))
OutputDir == "splixed-images"

\* push("placeholder"), then set_file_name(format!("{}-r{}c{}.{}", ..)).
OutPath(stem, r, c, ext) ==
    OutputDir \o "/" \o stem \o "-r" \o ToString(r) \o "c" \o ToString(c)
        \o "." \o ext

(***************************************************************************)
(* The environment: what a walk yields, the requests, the builds.          *)
(***************************************************************************)
Image(d, n, e, w, h) ==
    [kind |-> "img", dir |-> d, name |-> n, ext |-> e, width |-> w, height |-> h]

\* An entry WalkDir reports as Err(_).
WalkErr ==
    [kind |-> "err", dir |-> "locked", name |-> "", ext |-> "", width |-> 0, height |-> 0]

\* An entry image::open fails on: a directory, a text file, a broken image.
NotAnImage ==
    [kind |-> "other", dir |-> "", name |-> "notes", ext |-> "txt", width |-> 0, height |-> 0]

\* The tree the batch runs walk: two images share the stem x.
Catalogue ==
    {WalkErr, NotAnImage, Image("a", "x", "png", 3, 3), Image("b", "x", "png", 2, 2),
     Image("", "y", "jpeg", 1, 2)}

Walks ==
    {s \in UNION {[1..n -> Catalogue] : n \in 1..MaxFiles} :
        \A a, b \in 1..Len(s) : a # b => s[a] # s[b]}

\* The requests of the batch runs.
BatchRows == {None, <<Zero>>, <<U32(2)>>, <<One, U32(2)>>}

BatchCols == {None, <<U32(2)>>, <<U32(2), One>>}

\* The requests of the planner runs: shorthand counts and weighted specs,
\* with weights up to u32::MAX.
Weights == {U32(n) : n \in 1..MaxWeight} \cup {U32Max}

PlanSpecs ==
    {<<U32(n)>> : n \in 1..MaxCount}
        \cup UNION {[1..n -> Weights] : n \in 2..MaxSpecLen}

Builds == {"debug", "release"}

\* A file that is in output_directory before the first run.
Stale == [path |-> OutPath("x", 0, 0, "png"), src |-> 0, rect |-> Crop([start |-> Zero, len |-> Zero], [start |-> Zero, len |-> Zero])]

Paths(fs) == {f.path : f \in fs}

InitProcess ==
    /\ pc = "start"
    /\ entry = 0
    /\ split_images = <<>>
    /\ num_rows = 0
    /\ num_cols = 0
    /\ i = 0
    /\ j = 0
    /\ stderr = <<>>
    /\ ops = <<>>
    /\ faults = 0
    /\ run = "first"
    /\ filesRun1 = {}

\* A batch over a directory tree.
Init ==
    /\ build \in Builds
    /\ rows \in BatchRows
    /\ cols \in BatchCols
    /\ walk \in Walks
    /\ outDirExists \in BOOLEAN
    /\ files \in IF outDirExists THEN {{}, {Stale}} ELSE {{}}
    /\ InitProcess

\* One image of every size up to MaxDim, every planner request.
InitPlan ==
    /\ build \in Builds
    /\ rows \in PlanSpecs
    /\ cols \in PlanSpecs
    /\ walk \in {<<Image("", "x", "png", w, h)>> : w \in 1..MaxDim, h \in 1..MaxDim}
    /\ outDirExists = TRUE
    /\ files = {}
    /\ InitProcess

(***************************************************************************)
(* main.                                                                   *)
(***************************************************************************)
Report(msg) == Append(stderr, [msg |-> msg, entry |-> entry])

\* validate_args: Err(..) or Ok(()).
ValidateError ==
    IF ~\E n \in 1..Len(walk) : walk[n].kind = "img"
        THEN "splix: image: not or does not contain a valid image"
    ELSE IF rows = None /\ cols = None
        THEN "splix: At least one of '--rows', '--cols' needs to be specified"
    ELSE IF \E n \in 1..Len(rows) : rows[n] = Zero
        THEN "splix: rows: Row size(s) must be greater than zero"
    ELSE IF \E n \in 1..Len(cols) : cols[n] = Zero
        THEN "splix: cols: Column size(s) must be greater than zero"
    ELSE ""

\* main, up to the loop: validate_args, return on Err.
ValidateArgs ==
    /\ pc = "start"
    /\ IF ValidateError # ""
           THEN /\ pc' = "rejected"
                /\ stderr' = Report(ValidateError)
                /\ entry' = entry
           ELSE /\ pc' = "walk"
                /\ stderr' = stderr
                /\ entry' = 1
    /\ UNCHANGED <<build, rows, cols, walk, outDirExists, files, split_images,
                   num_rows, num_cols, i, j, ops, faults, run, filesRun1>>

AtEntry(kind) == pc = "walk" /\ entry <= Len(walk) /\ walk[entry].kind = kind

\* Err(_) => continue
WalkError ==
    /\ AtEntry("err")
    /\ entry' = entry + 1
    /\ UNCHANGED <<build, rows, cols, walk, outDirExists, files, pc, split_images,
                   num_rows, num_cols, i, j, stderr, ops, faults, run, filesRun1>>

\* OpenFails that gives up on the batch at the first file it cannot decode.
OpenFailsAborts ==
    /\ AtEntry("other")
    /\ pc' = "exited"
    /\ stderr' = Report("splix: cannot decode")
    /\ UNCHANGED <<build, rows, cols, walk, outDirExists, files, entry, split_images,
                   num_rows, num_cols, i, j, ops, faults, run, filesRun1>>

\* image::open(entry.path()) is not Ok: the body of the if let is skipped.
OpenFails ==
    /\ AtEntry("other")
    /\ entry' = entry + 1
    /\ UNCHANGED <<build, rows, cols, walk, outDirExists, files, pc, split_images,
                   num_rows, num_cols, i, j, stderr, ops, faults, run, filesRun1>>

\* image::open is Ok: split_image, then the arguments of save_images.
OpenAndSplit ==
    /\ AtEntry("img")
    /\ LET rs == UnwrapOrOne(rows)
           cs == UnwrapOrOne(cols)
           r == SplitImage(build, walk[entry].width, walk[entry].height, rs, cs)
       IN  IF r.outcome = "ok"
               THEN /\ pc' = "save_dir"
                    /\ split_images' = r.images
                    /\ num_rows' = NumArg(rs)
                    /\ num_cols' = NumArg(cs)
                    /\ stderr' = stderr
               ELSE /\ pc' = IF r.outcome = "exit" THEN "exited" ELSE "panicked"
                    /\ stderr' = Report(r.msg)
                    /\ UNCHANGED <<split_images, num_rows, num_cols>>
    /\ UNCHANGED <<build, rows, cols, walk, outDirExists, files, entry, i, j,
                   ops, faults, run, filesRun1>>

(***************************************************************************)
(* save_images.                                                            *)
(***************************************************************************)
\* Lines 201-211 when the directory exists or create_dir_all succeeds.
EnsureDir ==
    /\ pc = "save_dir"
    /\ outDirExists' = TRUE
    /\ pc' = "save_tiles"
    /\ i' = 0
    /\ j' = 0
    /\ UNCHANGED <<build, rows, cols, walk, files, entry, split_images, num_rows,
                   num_cols, stderr, ops, faults, run, filesRun1>>

\* Lines 201-211 when create_dir_all fails: the error is printed and the
\* function goes on to the loop.
CreateDirFails ==
    /\ pc = "save_dir"
    /\ ~outDirExists
    /\ faults < MaxFaults
    /\ faults' = faults + 1
    /\ stderr' = Report("splix: Failed to create directory")
    /\ pc' = "save_tiles"
    /\ i' = 0
    /\ j' = 0
    /\ UNCHANGED <<build, rows, cols, walk, outDirExists, files, entry, split_images,
                   num_rows, num_cols, ops, run, filesRun1>>

\* The path of the tile the loop is at.
CurPath ==
    OutPath(FileStem(walk[entry]), i, j, ExtensionsStr0(FormatFromPath(walk[entry])))

Op(name, ok) == [op |-> name, path |-> CurPath, ok |-> ok, entry |-> entry]

\* The remove_file call of this iteration, made when the path exists.
RemoveOps == IF CurPath \in Paths(files) THEN <<Op("remove", TRUE)>> ELSE <<>>

\* The end of one iteration: the next (i, j), or back to main's loop.
NextTile ==
    IF j + 1 < num_cols
        THEN /\ j' = j + 1
             /\ UNCHANGED <<i, pc, entry>>
    ELSE IF i + 1 < num_rows
        THEN /\ i' = i + 1
             /\ j' = 0
             /\ UNCHANGED <<pc, entry>>
    ELSE /\ pc' = "walk"
         /\ entry' = entry + 1
         /\ UNCHANGED <<i, j>>

\* split_images[i * num_cols + j], 1-based.
TileIndex == i * num_cols + j + 1

\* SaveTile that keeps an existing file and saves the tile beside it under a
\* numbered name.
SaveTileNumbered ==
    /\ pc = "save_tiles"
    /\ outDirExists
    /\ TileIndex <= Len(split_images)
    /\ files' = files \cup
           {[path |-> IF CurPath \in Paths(files) THEN CurPath \o ".1" ELSE CurPath,
             src |-> entry, rect |-> split_images[TileIndex]]}
    /\ ops' = Append(ops, Op("save", TRUE))
    /\ stderr' = stderr
    /\ NextTile
    /\ UNCHANGED <<build, rows, cols, walk, outDirExists, split_images, num_rows,
                   num_cols, faults, run, filesRun1>>

\* One iteration in which every call succeeds: the existing file, if any, is
\* removed, then the tile is saved.  An index out of range panics.
SaveTile ==
    /\ pc = "save_tiles"
    /\ outDirExists
    /\ IF TileIndex > Len(split_images)
           THEN /\ pc' = "panicked"
                /\ files' = {f \in files : f.path # CurPath}
                /\ ops' = ops \o RemoveOps
                /\ stderr' = Report("index out of bounds")
                /\ UNCHANGED <<i, j, entry>>
           ELSE /\ files' = {f \in files : f.path # CurPath}
                       \cup {[path |-> CurPath, src |-> entry,
                              rect |-> split_images[TileIndex]]}
                /\ ops' = ops \o RemoveOps \o <<Op("save", TRUE)>>
                /\ stderr' = stderr
                /\ NextTile
    /\ UNCHANGED <<build, rows, cols, walk, outDirExists, split_images, num_rows,
                   num_cols, faults, run, filesRun1>>

\* RemoveFails without the continue: the tile is saved over the file that
\* could not be removed.
RemoveFailsThenSaves ==
    /\ pc = "save_tiles"
    /\ CurPath \in Paths(files)
    /\ faults < MaxFaults
    /\ faults' = faults + 1
    /\ ops' = ops \o <<Op("remove", FALSE), Op("save", TRUE)>>
    /\ stderr' = Report("Failed to remove existing image")
    /\ files' = {f \in files : f.path # CurPath}
           \cup {[path |-> CurPath, src |-> entry, rect |-> split_images[TileIndex]]}
    /\ NextTile
    /\ UNCHANGED <<build, rows, cols, walk, outDirExists, split_images,
                   num_rows, num_cols, run, filesRun1>>

\* One iteration in which remove_file fails: report, continue.
RemoveFails ==
    /\ pc = "save_tiles"
    /\ CurPath \in Paths(files)
    /\ faults < MaxFaults
    /\ faults' = faults + 1
    /\ ops' = Append(ops, Op("remove", FALSE))
    /\ stderr' = Report("Failed to remove existing image")
    /\ NextTile
    /\ UNCHANGED <<build, rows, cols, walk, outDirExists, files, split_images,
                   num_rows, num_cols, run, filesRun1>>

\* One iteration in which save_with_format fails (the existing file, if any,
\* was removed before): report, next iteration.  The failed save is taken to
\* leave no file at the path.
SaveFails ==
    /\ pc = "save_tiles"
    /\ outDirExists
    /\ TileIndex <= Len(split_images)
    /\ faults < MaxFaults
    /\ faults' = faults + 1
    /\ files' = {f \in files : f.path # CurPath}
    /\ ops' = ops \o RemoveOps \o <<Op("save", FALSE)>>
    /\ stderr' = Report("splix: Failed to save image")
    /\ NextTile
    /\ UNCHANGED <<build, rows, cols, walk, outDirExists, split_images, num_rows,
                   num_cols, run, filesRun1>>

\* One iteration when the directory could not be created: the path does not
\* exist, save_with_format is called and fails.
SaveWithoutDir ==
    /\ pc = "save_tiles"
    /\ ~outDirExists
    /\ TileIndex <= Len(split_images)
    /\ ops' = Append(ops, Op("save", FALSE))
    /\ stderr' = Report("splix: Failed to save image")
    /\ NextTile
    /\ UNCHANGED <<build, rows, cols, walk, outDirExists, files, split_images,
                   num_rows, num_cols, faults, run, filesRun1>>

\* The WalkDir iterator is exhausted: main returns.
Return ==
    /\ pc = "walk"
    /\ entry > Len(walk)
    /\ pc' = "done"
    /\ UNCHANGED <<build, rows, cols, walk, outDirExists, files, entry, split_images,
                   num_rows, num_cols, i, j, stderr, ops, faults, run, filesRun1>>

\* The program is started a second time with the same request.
RunAgain ==
    /\ pc \in {"done", "exited", "panicked"}
    /\ run = "first"
    /\ run' = "second"
    /\ filesRun1' = Paths(files)
    /\ pc' = "start"
    /\ entry' = 0
    /\ split_images' = <<>>
    /\ num_rows' = 0
    /\ num_cols' = 0
    /\ i' = 0
    /\ j' = 0
    /\ stderr' = <<>>
    /\ ops' = <<>>
    /\ UNCHANGED <<build, rows, cols, walk, outDirExists, files, faults>>

\* One run of a batch, with I/O failures.
Next ==
    \/ ValidateArgs
    \/ WalkError
    \/ OpenFails
    \/ OpenAndSplit
    \/ EnsureDir
    \/ CreateDirFails
    \/ SaveTile
    \/ RemoveFails
    \/ SaveFails
    \/ SaveWithoutDir
    \/ Return

Spec == Init /\ [][Next]_vars

\* Two runs of a batch in which no I/O call fails.
NextRerun ==
    \/ ValidateArgs
    \/ WalkError
    \/ OpenFails
    \/ OpenAndSplit
    \/ EnsureDir
    \/ SaveTile
    \/ Return
    \/ RunAgain

SpecRerun == Init /\ [][NextRerun]_vars

\* The planner on one image: validate_args, then split_image.
NextPlan ==
    \/ ValidateArgs
    \/ OpenAndSplit

SpecPlan == InitPlan /\ [][NextPlan]_vars

(***************************************************************************)
(* What the claims speak about.                                            *)
(***************************************************************************)
Min(a, b) == IF a < b THEN a ELSE b

\* split_image has been called on the current entry.
SplitCalled == pc \in {"save_dir", "exited", "panicked"}

\* The row and column segments, read off the tiles split_image returned.
RowSegsOf ==
    [n \in 1..num_rows |->
        [start |-> split_images[(n - 1) * num_cols + 1].y,
         len |-> split_images[(n - 1) * num_cols + 1].h]]

ColSegsOf ==
    [n \in 1..num_cols |-> [start |-> split_images[n].x, len |-> split_images[n].w]]

\* Every offset and length is a pixel count within the extent.
InBounds(extent, segs) ==
    \A n \in 1..Len(segs) :
        /\ segs[n].start.hi = 0
        /\ segs[n].len.hi = 0
        /\ ToInt(segs[n].start) + ToInt(segs[n].len) <= extent

\* The segments start at 0, each starts where the one before ends, and the
\* last ends at the extent.
ExactSegments(extent, segs) ==
    /\ Len(segs) >= 1
    /\ InBounds(extent, segs)
    /\ segs[1].start = Zero
    /\ \A n \in 1..(Len(segs) - 1) :
           ToInt(segs[n + 1].start) = ToInt(segs[n].start) + ToInt(segs[n].len)
    /\ ToInt(segs[Len(segs)].start) + ToInt(segs[Len(segs)].len) = extent

\* The exact total weight of a spec is larger than the extent.
Exceeds(spec, extent) == SumC(spec).of \/ U32Lt(U32(extent), SumC(spec).v)

\* The output path of tile (r, c) of entry e.
PathOf(e, r, c) ==
    OutPath(FileStem(walk[e]), r, c, ExtensionsStr0(FormatFromPath(walk[e])))

\* The lines on stderr that were printed while the loop was at entry e.
ReportsOf(e) == {n \in 1..Len(stderr) : stderr[n].entry = e}

\* Tile (r, c) of entry e is on disk, written from e.
OnDisk(fs, e, r, c) == \E f \in fs : f.path = PathOf(e, r, c) /\ f.src = e

\* C1: for every extent > 0 and every spec of positive weights, the row and
\* the column segments split_image computes are contiguous from 0, do not
\* overlap, and their lengths sum to the extent.
C1_SegmentsExact ==
    pc = "save_dir" =>
        /\ ExactSegments(walk[entry].height, RowSegsOf)
        /\ ExactSegments(walk[entry].width, ColSegsOf)

\* C2: a shorthand spec [n] on an axis of extent E yields min(n, E) segments:
\* n when n <= E, and E one-pixel segments (clamped, not rejected) when n > E.
C2_ShorthandClamps ==
    (SplitCalled /\ Len(rows) = 1 /\ Len(cols) = 1) =>
        /\ pc = "save_dir"
        /\ Len(RowSegsOf) = Min(ToInt(rows[1]), walk[entry].height)
        /\ Len(ColSegsOf) = Min(ToInt(cols[1]), walk[entry].width)
        /\ Len(split_images) = Len(RowSegsOf) * Len(ColSegsOf)

\* C3: the batch is aborted only by request validation, before any file is
\* processed or any output touched; once the loop has started, the run ends
\* only with every discovered file processed.
C3_OnlyValidationAborts ==
    /\ pc \in {"rejected", "exited", "panicked"} =>
           (pc = "rejected" /\ entry = 0 /\ ops = <<>>)
    /\ (pc \in {"done", "exited", "panicked"}) => entry > Len(walk)

\* C4: a candidate that fails to decode is skipped with no output, no report
\* and no exit, the loop goes on to the next candidate; and every decodable
\* file whose save_images ends without a reported failure has all of its
\* num_rows * num_cols tiles on disk.
C4_DecodeFailureIsLocal ==
    [][/\ AtEntry("other") =>
              /\ pc' = "walk"
              /\ entry' = entry + 1
              /\ UNCHANGED <<files, outDirExists, stderr, ops>>
       /\ (pc = "save_tiles" /\ pc' = "walk" /\ stderr' = stderr
              /\ ReportsOf(entry) = {}) =>
              \A r \in 0..(num_rows - 1), c \in 0..(num_cols - 1) :
                  OnDisk(files', entry, r, c)]_vars

\* A decodable file that comes after a candidate that failed to decode has
\* tiles on disk.
C4_Witness ==
    \E n \in 1..Len(walk), m \in 1..Len(walk) :
        /\ n < m
        /\ m < entry
        /\ walk[n].kind = "other"
        /\ walk[m].kind = "img"
        /\ ReportsOf(m) = {}
        /\ OnDisk(files, m, 0, 0)
        /\ OnDisk(files, m, 1, 1)

\* C5: the k * m output paths of one source image are pairwise distinct, and
\* a second run with the same request leaves the same set of files in the
\* output directory as the first.
C5_RerunOverwrites ==
    /\ pc = "save_tiles" =>
           Cardinality({PathOf(entry, r, c) :
                           r \in 0..(num_rows - 1), c \in 0..(num_cols - 1)})
               = num_rows * num_cols
    /\ (run = "second" /\ pc \in {"done", "exited", "panicked"}) =>
           Paths(files) = filesRun1

\* The second run has ended after removing and rewriting tiles of the first.
C5_Witness ==
    /\ run = "second"
    /\ pc = "done"
    /\ Cardinality(files) >= 4
    /\ \E n \in 1..Len(ops) : ops[n].op = "remove" /\ ops[n].ok

\* C6: split_image returns k * m tiles in row-major order, main passes k and
\* m to save_images, the index i * m + j is in range, and the file named
\* <stem>-r<i>c<j>.<ext> holds the tile of row segment i and column segment j.
C6_TilesRowMajor ==
    /\ pc = "save_tiles" =>
           /\ num_rows = Len(PlanAxis(walk[entry].height, UnwrapOrOne(rows)))
           /\ num_cols = Len(PlanAxis(walk[entry].width, UnwrapOrOne(cols)))
           /\ Len(split_images) = num_rows * num_cols
           /\ TileIndex <= Len(split_images)
    /\ \A e \in {f.src : f \in files} \ {0} :
           LET rowSegs == PlanAxis(walk[e].height, UnwrapOrOne(rows))
               colSegs == PlanAxis(walk[e].width, UnwrapOrOne(cols))
           IN  \A f \in {g \in files : g.src = e} :
                   \E r \in 0..(Len(rowSegs) - 1), c \in 0..(Len(colSegs) - 1) :
                       /\ f.path = PathOf(e, r, c)
                       /\ f.rect = Crop(colSegs[c + 1], rowSegs[r + 1])
    /\ (pc = "walk" /\ entry > 1 /\ walk[entry - 1].kind = "img"
            /\ ReportsOf(entry - 1) = {}) =>
           \A r \in 0..(num_rows - 1), c \in 0..(num_cols - 1) :
               OnDisk(files, entry - 1, r, c)

\* An image split into 2 rows of 1 and 2 pixels and 2 columns has been saved.
C6_Witness ==
    /\ pc = "walk"
    /\ entry > 1
    /\ walk[entry - 1].kind = "img"
    /\ ReportsOf(entry - 1) = {}
    /\ num_rows = 2
    /\ num_cols = 2
    /\ \E f \in files :
           /\ f.path = PathOf(entry - 1, 1, 0)
           /\ f.src = entry - 1
           /\ f.rect = [x |-> Zero, y |-> One, w |-> One, h |-> U32(2)]

\* C7: when the output directory is absent and cannot be created, that is
\* reported once for the image and no removal and no save is attempted for
\* any of its tiles.
C7_DirFailureSkipsTiles ==
    \A n \in 1..Len(stderr) :
        stderr[n].msg = "splix: Failed to create directory" =>
            /\ ReportsOf(stderr[n].entry) = {n}
            /\ \A k \in 1..Len(ops) : ops[k].entry # stderr[n].entry

\* The calls one step of the tile loop adds to ops.
NewOps == SubSeq(ops', Len(ops) + 1, Len(ops'))

\* C8: in every iteration of the tile loop, a path that exists is removed
\* before the tile is saved; when the removal fails it is reported, nothing
\* is saved for that tile, no file changes, and the loop goes on to the next
\* tile or the next source file.
C8_RemoveBeforeSave ==
    [][pc = "save_tiles" =>
          /\ \A n \in 1..Len(NewOps) :
                 /\ NewOps[n].path = CurPath
                 /\ NewOps[n].op = "save" =>
                        IF CurPath \in Paths(files)
                            THEN n = 2 /\ NewOps[1] = Op("remove", TRUE)
                            ELSE n = 1
          /\ (CurPath \in Paths(files) /\ NewOps # <<>>) => NewOps[1].op = "remove"
          /\ (NewOps # <<>> /\ NewOps[1] = Op("remove", FALSE)) =>
                 /\ Len(NewOps) = 1
                 /\ files' = files
                 /\ stderr' = Report("Failed to remove existing image")
                 /\ IF j + 1 < num_cols
                        THEN pc' = "save_tiles" /\ i' = i /\ j' = j + 1
                    ELSE IF i + 1 < num_rows
                        THEN pc' = "save_tiles" /\ i' = i + 1 /\ j' = 0
                    ELSE pc' = "walk" /\ entry' = entry + 1]_vars

\* After a failed removal, a later tile of the same image and a tile of a
\* later source file have been saved.
C8_Witness ==
    \E n \in 1..Len(ops), m \in 1..Len(ops), l \in 1..Len(ops) :
        /\ n < m
        /\ m < l
        /\ ops[n] = [op |-> "remove", path |-> ops[n].path, ok |-> FALSE, entry |-> ops[n].entry]
        /\ ops[m].op = "save" /\ ops[m].ok /\ ops[m].entry = ops[n].entry
        /\ ops[l].op = "save" /\ ops[l].ok /\ ops[l].entry > ops[n].entry

\* C9: a weighted spec whose total weight exceeds the extent is accepted, and
\* the sums, offsets and lengths neither panic nor wrap: every segment lies
\* within the extent.
C9_HeavySpecAccepted ==
    (SplitCalled
        /\ \/ (Len(rows) > 1 /\ Exceeds(rows, walk[entry].height))
           \/ (Len(cols) > 1 /\ Exceeds(cols, walk[entry].width))) =>
        /\ pc = "save_dir"
        /\ InBounds(walk[entry].height, RowSegsOf)
        /\ InBounds(walk[entry].width, ColSegsOf)

\* C10: within one run, the path of a tile never holds a tile that was
\* written for another source file of that run.
C10_NoCrossFileCollision ==
    pc = "save_tiles" =>
        \A f \in files : f.path = CurPath => f.src \in {0, entry}

====
